---- MODULE Spec2Model ----
(***************************************************************************)
(* Jigsaw puzzle (src/main.py): the piece model, the piece factory, the    *)
(* layout randomizer and the drag / snap state machine of the event loop.  *)
(*                                                                         *)
(* A PuzzlePiece object is identified by its creation index; `piece` is    *)
(* the heap (identity -> fields) and `pieces` is the Python list of        *)
(* references (the render list).  Coordinates are integers, as in          *)
(* pygame.Rect.                                                            *)
(***************************************************************************)
EXTENDS Integers, Sequences, FiniteSets, TLC

VARIABLES
    pc,              \* position in main(): "create", "shuffle", "loop", "exit", "error"
    image,           \* <<width, height>> of original_image (after scaling)
    grid_rows,       \* argument grid_rows of create_puzzle_pieces
    grid_cols,       \* argument grid_cols of create_puzzle_pieces
    start_pos,       \* argument start_pos of create_puzzle_pieces
    screen_rect,     \* <<width, height>> of the rectangle given to shuffle_pieces
    piece,           \* heap: identity -> [correct_pos, rect, moving]
    pieces,          \* the list `pieces`: sequence of identities, drawn first to last
    selected_piece,  \* identity of the selected piece, or None
    offset_x,        \* grab offset captured at pick-up
    offset_y,
    event,           \* the event handled last: [type, button, pos], with sel and
                     \* picked: selected_piece and picked when it arrived
    snap_ret,        \* return value of snap_to_place in the event handled last
    picked           \* the piece picked up last (None before the first pick-up)

vars == <<pc, image, grid_rows, grid_cols, start_pos, screen_rect, piece, pieces,
          selected_piece, offset_x, offset_y, event, snap_ret, picked>>

config == <<image, grid_rows, grid_cols, start_pos, screen_rect>>

(***************************************************************************)
(* Program constants                                                       *)
(***************************************************************************)
SNAP_DISTANCE == 20

None == 0

(***************************************************************************)
(* Bounds of the model                                                     *)
(***************************************************************************)
\* create_puzzle_pieces is explored for image sides 1..MaxDim (and 100) and
\* for 1..MaxGrid rows and columns.
MaxDim == 6
MaxGrid == 3
\* snap_to_place is explored for every top-left within MaxDelta of the target.
MaxDelta == 22

\* shuffle_pieces is explored for screen rectangles of sides 1..MaxScreen, and
\* random.randint returns every value of a range of at most MaxRange + 1.
MaxScreen == 4
MaxRange == 3

\* Sessions played through the event loop.
SessionImages == {<<150, 50>>}
SessionGrids == {<<1, 2>>, <<1, 3>>}
SessionStarts == {<<50, 50>>}
SessionScreens == {<<800, 600>>}

\* Inputs of the piece factory.
FactoryDims == (1..MaxDim) \cup {100}
FactoryStarts == {<<0, 0>>, <<50, 50>>, <<-3, 7>>}

\* Inputs of the layout randomizer.
ScatterImages == {<<2, 2>>, <<4, 3>>}
ScatterGrids == {<<1, 1>>, <<1, 2>>}
ScatterScreens == (1..MaxScreen) \X (1..MaxScreen)

\* Values random.randint is sampled at, per axis.
RandXs == {10, 35}
RandYs == {0}

\* Pointer positions and buttons delivered by the event source.
Points == {<<15, 5>>, <<40, 5>>, <<65, 55>>, <<100, 100>>}
Buttons == {1, 3}

(***************************************************************************)
(* Helpers                                                                 *)
(***************************************************************************)
Abs(n) == IF n < 0 THEN -n ELSE n

\* collidepoint with the right and bottom edges taken as inside.
collidepoint_inclusive(r, p) ==
    /\ r.x <= p[1] /\ p[1] <= r.x + r.w
    /\ r.y <= p[2] /\ p[2] <= r.y + r.h

\* pygame.Rect.collidepoint: left and top edges inside, right and bottom outside.
collidepoint(r, p) ==
    /\ r.x <= p[1] /\ p[1] < r.x + r.w
    /\ r.y <= p[2] /\ p[2] < r.y + r.h

\* list.remove(x): drops the first element equal to x.
RECURSIVE ListRemove(_, _)
ListRemove(s, x) ==
    IF s = <<>> THEN <<>>
    ELSE IF Head(s) = x THEN Tail(s)
    ELSE <<Head(s)>> \o ListRemove(Tail(s), x)

\* random.randint(a, b): the values it can return; empty when b < a, where it
\* raises ValueError.  A range of at most MaxRange + 1 values is taken whole,
\* a longer one is sampled at `samples` (at both ends when no sample lies in
\* it).
randint(a, b, samples) ==
    IF b < a THEN {}
    ELSE IF b - a <= MaxRange THEN a..b
    ELSE LET inside == {v \in samples : a <= v /\ v <= b}
         IN  IF inside = {} THEN {a, b} ELSE inside

(***************************************************************************)
(* PuzzlePiece                                                             *)
(***************************************************************************)
\* PuzzlePiece.__init__: rect has the size of the piece image and starts at
\* correct_pos.
PuzzlePiece(size, correct) ==
    [correct_pos |-> correct,
     rect |-> [x |-> correct[1], y |-> correct[2], w |-> size[1], h |-> size[2]],
     moving |-> FALSE]

\* snap_to_place aligning the centre of the piece with the target.
snap_to_place_centered(self) ==
    IF Abs(self.rect.x - self.correct_pos[1]) < SNAP_DISTANCE
       /\ Abs(self.rect.y - self.correct_pos[2]) < SNAP_DISTANCE
    THEN [ret |-> TRUE,
          self |-> [self EXCEPT !.rect.x = self.correct_pos[1] - self.rect.w \div 2,
                                !.rect.y = self.correct_pos[2] - self.rect.h \div 2]]
    ELSE [ret |-> FALSE, self |-> self]

\* snap_to_place with the assignment reversed (the target takes the position).
snap_to_place_reversed(self) ==
    IF Abs(self.rect.x - self.correct_pos[1]) < SNAP_DISTANCE
       /\ Abs(self.rect.y - self.correct_pos[2]) < SNAP_DISTANCE
    THEN [ret |-> TRUE,
          self |-> [self EXCEPT !.correct_pos = <<self.rect.x, self.rect.y>>]]
    ELSE [ret |-> FALSE, self |-> self]

\* snap_to_place with the tolerance taken inclusively (<= for <).
snap_to_place_inclusive(self) ==
    IF Abs(self.rect.x - self.correct_pos[1]) <= SNAP_DISTANCE
       /\ Abs(self.rect.y - self.correct_pos[2]) <= SNAP_DISTANCE
    THEN [ret |-> TRUE,
          self |-> [self EXCEPT !.rect.x = self.correct_pos[1],
                                !.rect.y = self.correct_pos[2]]]
    ELSE [ret |-> FALSE, self |-> self]

\* PuzzlePiece.snap_to_place: the return value and the piece afterwards.
snap_to_place(self) ==
    LET correct_x == self.correct_pos[1]
        correct_y == self.correct_pos[2]
        current_x == self.rect.x
        current_y == self.rect.y
    IN  IF Abs(current_x - correct_x) < SNAP_DISTANCE
           /\ Abs(current_y - correct_y) < SNAP_DISTANCE
        THEN [ret |-> TRUE,
              self |-> [self EXCEPT !.rect.x = correct_x, !.rect.y = correct_y]]
        ELSE [ret |-> FALSE, self |-> self]

(***************************************************************************)
(* create_puzzle_pieces                                                    *)
(***************************************************************************)
\* create_puzzle_pieces with the loops exchanged (columns outside, rows inside).
create_puzzle_pieces_by_column(img, rows, cols, start) ==
    LET piece_width == img[1] \div cols
        piece_height == img[2] \div rows
        RECURSIVE RowLoop(_, _, _)
        RowLoop(acc, col, row) ==
            IF row >= rows THEN acc
            ELSE RowLoop(Append(acc,
                                PuzzlePiece(<<piece_width, piece_height>>,
                                            <<start[1] + col * piece_width,
                                              start[2] + row * piece_height>>)),
                         col, row + 1)
        RECURSIVE ColLoop(_, _)
        ColLoop(acc, col) ==
            IF col >= cols THEN acc
            ELSE ColLoop(RowLoop(acc, col, 0), col + 1)
    IN  ColLoop(<<>>, 0)

\* The nested loops of create_puzzle_pieces: the list of new pieces in the
\* order they are appended.  image.subsurface accepts every rectangle the
\* loops produce (they lie inside the image, zero-sized ones included).
create_puzzle_pieces(img, rows, cols, start) ==
    LET piece_width == img[1] \div cols
        piece_height == img[2] \div rows
        RECURSIVE ColLoop(_, _, _)
        ColLoop(acc, row, col) ==
            IF col >= cols THEN acc
            ELSE ColLoop(Append(acc,
                                PuzzlePiece(<<piece_width, piece_height>>,
                                            <<start[1] + col * piece_width,
                                              start[2] + row * piece_height>>)),
                         row, col + 1)
        RECURSIVE RowLoop(_, _)
        RowLoop(acc, row) ==
            IF row >= rows THEN acc
            ELSE RowLoop(ColLoop(acc, row, 0), row + 1)
    IN  RowLoop(<<>>, 0)

CreatePuzzlePieces ==
    /\ pc = "create"
    /\ LET made == create_puzzle_pieces(image, grid_rows, grid_cols, start_pos)
       IN  /\ piece' = [i \in 1..Len(made) |-> made[i]]
           /\ pieces' = [i \in 1..Len(made) |-> i]
    /\ pc' = "shuffle"
    /\ UNCHANGED <<config, selected_piece, offset_x, offset_y, event, snap_ret, picked>>

(***************************************************************************)
(* shuffle_pieces                                                          *)
(***************************************************************************)
\* The x range without the piece width subtracted.
RandX_full(self) == randint(0, screen_rect[1], RandXs)

RandX(self) == randint(0, screen_rect[1] - self.rect.w, RandXs)
RandY(self) == randint(0, screen_rect[2] - self.rect.h, RandYs)

\* Index in `pieces` of the first piece random.randint raises on, 0 if none.
FirstTooBig ==
    LET bad == {k \in 1..Len(pieces) :
                    RandX(piece[pieces[k]]) = {} \/ RandY(piece[pieces[k]]) = {}}
    IN  IF bad = {} THEN 0 ELSE CHOOSE k \in bad : \A j \in bad : k <= j

\* The loop of shuffle_pieces runs over `pieces` in order; it is left by the
\* exception of random.randint at the first piece larger than screen_rect,
\* after piece.rect.x was assigned when only the y range is empty.
ShufflePieces ==
    /\ pc = "shuffle"
    /\ LET stop == FirstTooBig
           done == IF stop = 0 THEN Len(pieces) ELSE stop - 1
           placed == {pieces[k] : k \in 1..done}
           half == IF stop # 0 /\ RandX(piece[pieces[stop]]) # {}
                   THEN {pieces[stop]} ELSE {}
           allx == UNION {RandX(piece[i]) : i \in placed \cup half}
           ally == UNION {RandY(piece[i]) : i \in placed}
       IN  \E fx \in [placed \cup half -> allx], fy \in [placed -> ally] :
             /\ \A i \in placed \cup half : fx[i] \in RandX(piece[i])
             /\ \A i \in placed : fy[i] \in RandY(piece[i])
             /\ piece' = [i \in DOMAIN piece |->
                            IF i \in placed
                            THEN [piece[i] EXCEPT !.rect.x = fx[i], !.rect.y = fy[i]]
                            ELSE IF i \in half
                            THEN [piece[i] EXCEPT !.rect.x = fx[i]]
                            ELSE piece[i]]
             /\ pc' = IF stop = 0 THEN "loop" ELSE "error"
    /\ UNCHANGED <<config, pieces, selected_piece, offset_x, offset_y, event,
                   snap_ret, picked>>

(***************************************************************************)
(* The event loop of main()                                                *)
(***************************************************************************)
\* for piece in reversed(pieces): if piece.rect.collidepoint(pos): ... break
\* The piece the loop stops at, None if it runs to the end.
RECURSIVE ReversedScan(_, _)
ReversedScan(k, pos) ==
    IF k = 0 THEN None
    ELSE IF collidepoint(piece[pieces[k]].rect, pos) THEN pieces[k]
    ELSE ReversedScan(k - 1, pos)

\* The hit test without reversed(): the first piece drawn wins.
RECURSIVE ForwardScan(_, _)
ForwardScan(k, pos) ==
    IF k > Len(pieces) THEN None
    ELSE IF collidepoint(piece[pieces[k]].rect, pos) THEN pieces[k]
    ELSE ForwardScan(k + 1, pos)

HitTest_forward(pos) == ForwardScan(1, pos)

HitTest(pos) == ReversedScan(Len(pieces), pos)

\* The bring-to-top without pieces.remove.
BringToTop_append(list, p) == Append(list, p)

\* The bring-to-top as an exchange with the last element.
BringToTop_swap(list, p) ==
    LET k == CHOOSE j \in 1..Len(list) : list[j] = p
    IN  [list EXCEPT ![k] = list[Len(list)], ![Len(list)] = p]

\* The pick-up without the bring-to-top.
BringToTop_skipped(list, p) == list

\* pieces.remove(piece); pieces.append(piece)
BringToTop(list, p) == Append(ListRemove(list, p), p)

\* The piece centred under the pointer, as PuzzlePiece.update_position does.
NewPos_centered(pos) ==
    <<pos[1] - piece[selected_piece].rect.w \div 2,
      pos[2] - piece[selected_piece].rect.h \div 2>>

\* new_pos of the MOUSEMOTION handler
NewPos(pos) == <<pos[1] - offset_x, pos[2] - offset_y>>

\* The button test dropped from the handlers.
IsPrimary_any(button) == TRUE

\* event.button == 1
IsPrimary(button) == button = 1

MouseButtonDown(button, pos) ==
    /\ pc = "loop"
    /\ event' = [type |-> "down", button |-> button, pos |-> pos,
                 sel |-> selected_piece, picked |-> picked]
    /\ snap_ret' = "None"
    /\ IF IsPrimary(button) /\ HitTest(pos) # None
       THEN LET p == HitTest(pos)
            IN  /\ selected_piece' = p
                /\ offset_x' = pos[1] - piece[p].rect.x
                /\ offset_y' = pos[2] - piece[p].rect.y
                /\ piece' = [piece EXCEPT ![p].moving = TRUE]
                /\ pieces' = BringToTop(pieces, p)
                /\ picked' = p
       ELSE UNCHANGED <<piece, pieces, selected_piece, offset_x, offset_y, picked>>
    /\ UNCHANGED <<pc, config>>

MouseMotion(pos) ==
    /\ pc = "loop"
    /\ event' = [type |-> "move", button |-> 0, pos |-> pos,
                 sel |-> selected_piece, picked |-> picked]
    /\ snap_ret' = "None"
    /\ IF selected_piece # None /\ piece[selected_piece].moving
       THEN piece' = [piece EXCEPT ![selected_piece].rect.x = NewPos(pos)[1],
                                   ![selected_piece].rect.y = NewPos(pos)[2]]
       ELSE UNCHANGED piece
    /\ UNCHANGED <<pc, config, pieces, selected_piece, offset_x, offset_y, picked>>

\* The release without clearing the flag.
StopMoving_skipped(self) == self

\* selected_piece.moving = False
StopMoving(self) == [self EXCEPT !.moving = FALSE]

MouseButtonUp(button) ==
    /\ pc = "loop"
    /\ event' = [type |-> "up", button |-> button, pos |-> <<0, 0>>,
                 sel |-> selected_piece, picked |-> picked]
    /\ IF IsPrimary(button) /\ selected_piece # None
       THEN LET dropped == StopMoving(piece[selected_piece])
                r == snap_to_place(dropped)
            IN  /\ piece' = [piece EXCEPT ![selected_piece] = r.self]
                /\ snap_ret' = IF r.ret THEN "True" ELSE "False"
                /\ selected_piece' = None
       ELSE /\ snap_ret' = "None"
            /\ UNCHANGED <<piece, selected_piece>>
    /\ UNCHANGED <<pc, config, pieces, offset_x, offset_y, picked>>

Quit ==
    /\ pc = "loop"
    /\ event' = [type |-> "quit", button |-> 0, pos |-> <<0, 0>>,
                 sel |-> selected_piece, picked |-> picked]
    /\ snap_ret' = "None"
    /\ pc' = "exit"
    /\ UNCHANGED <<config, piece, pieces, selected_piece, offset_x, offset_y, picked>>

(***************************************************************************)
(* Specifications                                                          *)
(***************************************************************************)
Start ==
    /\ pc = "create"
    /\ piece = <<>>
    /\ pieces = <<>>
    /\ selected_piece = None
    /\ offset_x = 0
    /\ offset_y = 0
    /\ event = [type |-> "none", button |-> 0, pos |-> <<0, 0>>, sel |-> None, picked |-> None]
    /\ snap_ret = "None"
    /\ picked = None

\* A session of main().
Init ==
    /\ image \in SessionImages
    /\ \E g \in SessionGrids : grid_rows = g[1] /\ grid_cols = g[2]
    /\ start_pos \in SessionStarts
    /\ screen_rect \in SessionScreens
    /\ Start

Next ==
    \/ CreatePuzzlePieces
    \/ ShufflePieces
    \/ \E b \in Buttons, p \in Points : MouseButtonDown(b, p)
    \/ \E p \in Points : MouseMotion(p)
    \/ \E b \in Buttons : MouseButtonUp(b)
    \/ Quit

Spec == Init /\ [][Next]_vars

\* create_puzzle_pieces alone, over every image size and grid within the bounds.
InitFactory ==
    /\ image \in FactoryDims \X FactoryDims
    /\ grid_rows \in 1..MaxGrid
    /\ grid_cols \in 1..MaxGrid
    /\ start_pos \in FactoryStarts
    /\ screen_rect \in SessionScreens
    /\ Start

NextFactory == CreatePuzzlePieces

SpecFactory == InitFactory /\ [][NextFactory]_vars

\* A release with the dragged piece anywhere within MaxDelta of its target:
\* one piece, grabbed at its top-left corner and moved there.
InitSnap ==
    /\ image = <<50, 50>>
    /\ grid_rows = 1
    /\ grid_cols = 1
    /\ start_pos = <<50, 50>>
    /\ screen_rect \in SessionScreens
    /\ pc = "loop"
    /\ pieces = <<1>>
    /\ \E dx \in (-MaxDelta)..MaxDelta, dy \in (-MaxDelta)..MaxDelta :
         LET made == create_puzzle_pieces(image, grid_rows, grid_cols, start_pos)[1]
             x == made.correct_pos[1] + dx
             y == made.correct_pos[2] + dy
         IN  /\ piece = <<[made EXCEPT !.rect.x = x, !.rect.y = y, !.moving = TRUE]>>
             /\ event = [type |-> "move", button |-> 0, pos |-> <<x, y>>,
                         sel |-> 1, picked |-> 1]
    /\ selected_piece = 1
    /\ offset_x = 0
    /\ offset_y = 0
    /\ snap_ret = "None"
    /\ picked = 1

NextSnap == \E b \in Buttons : MouseButtonUp(b)

SpecSnap == InitSnap /\ [][NextSnap]_vars

\* create_puzzle_pieces and shuffle_pieces alone, over small screen rectangles.
InitScatter ==
    /\ image \in ScatterImages
    /\ \E g \in ScatterGrids : grid_rows = g[1] /\ grid_cols = g[2]
    /\ start_pos \in SessionStarts
    /\ screen_rect \in ScatterScreens
    /\ Start

NextScatter == CreatePuzzlePieces \/ ShufflePieces

SpecScatter == InitScatter /\ [][NextScatter]_vars

(***************************************************************************)
(* Vocabulary of the claims                                                *)
(***************************************************************************)
Ids == DOMAIN piece

Moving == {i \in Ids : piece[i].moving}

\* Top-left of piece i in heap h.
TopLeftIn(h, i) == <<h[i].rect.x, h[i].rect.y>>

TopLeft(i) == TopLeftIn(piece, i)

PrimaryDown == event'.type = "down" /\ event'.button = 1
PrimaryUp == event'.type = "up" /\ event'.button = 1

\* The piece latest in the render list among those whose bounds contain p.
TopmostAt(p) ==
    LET hits == {k \in 1..Len(pieces) : collidepoint(piece[pieces[k]].rect, p)}
    IN  IF hits = {} THEN None
        ELSE pieces[CHOOSE k \in hits : \A j \in hits : j <= k]

(***************************************************************************)
(* Claims                                                                  *)
(***************************************************************************)

\* C1: in every reachable state at most one piece has moving = TRUE.
C1_AtMostOneMoving == Cardinality(Moving) <= 1

\* C2: a primary pointer_down that hits a piece P leaves P selected and the
\* only moving piece, and while a piece is selected every event other than a
\* primary pointer_up keeps that piece selected and the only moving piece.
C2_DragInvariant ==
    [][/\ (PrimaryDown /\ TopmostAt(event'.pos) # None)
            => /\ selected_piece' = TopmostAt(event'.pos)
               /\ Moving' = {TopmostAt(event'.pos)}
       /\ (selected_piece # None /\ ~PrimaryUp)
            => /\ selected_piece' = selected_piece
               /\ Moving' = {selected_piece}]_vars

\* C3: on release, snap_to_place returns True exactly when both deltas from the
\* target are strictly inside the tolerance; after True the top-left is the
\* target, after False it is where it was.
C3_SnapIff ==
    [][(PrimaryUp /\ selected_piece # None) =>
          LET p == selected_piece
              dx == piece[p].rect.x - piece[p].correct_pos[1]
              dy == piece[p].rect.y - piece[p].correct_pos[2]
              near == (1 - SNAP_DISTANCE)..(SNAP_DISTANCE - 1)
          IN  /\ snap_ret' \in {"True", "False"}
              /\ snap_ret' = "True" <=> (dx \in near /\ dy \in near)
              /\ snap_ret' = "True" => TopLeftIn(piece', p) = piece[p].correct_pos
              /\ snap_ret' = "False" => TopLeftIn(piece', p) = TopLeft(p)]_vars

\* C3 witness: a release exactly SNAP_DISTANCE off the target on the x axis
\* (and on it on the y axis) did not snap.
C3_Witness ==
    /\ event.type = "up" /\ event.button = 1 /\ event.sel # None
    /\ snap_ret = "False"
    /\ Abs(piece[event.sel].rect.x - piece[event.sel].correct_pos[1]) = SNAP_DISTANCE
    /\ piece[event.sel].rect.y = piece[event.sel].correct_pos[2]

\* C4: with no piece selected, a primary pointer_down at p selects the piece
\* latest in the render list among those containing p, captures p minus its
\* top-left and sets its flag; when no piece contains p the selection, the
\* pieces and the render list stay as they were.
C4_PickTopmost ==
    [][(PrimaryDown /\ selected_piece = None) =>
          LET p == event'.pos
              t == TopmostAt(p)
          IN  IF t # None
              THEN /\ selected_piece' = t
                   /\ offset_x' = p[1] - piece[t].rect.x
                   /\ offset_y' = p[2] - piece[t].rect.y
                   /\ piece'[t].moving
              ELSE /\ selected_piece' = None
                   /\ piece' = piece
                   /\ pieces' = pieces]_vars

\* C4 witness: a pick-up from IDLE at a point that a second piece contains too.
C4_Witness ==
    /\ event.type = "down" /\ event.button = 1 /\ event.sel = None
    /\ selected_piece # None
    /\ piece[selected_piece].moving
    /\ \E q \in Ids \ {selected_piece} : collidepoint(piece[q].rect, event.pos)

\* C5: a primary pointer_down at a point inside the piece picked up last
\* selects that piece.
C5_BringToFront ==
    [][(PrimaryDown /\ picked # None /\ collidepoint(piece[picked].rect, event'.pos))
          => selected_piece' = picked]_vars

\* C5 witness: the piece picked up last was released and is picked again at a
\* point that another piece contains too.
C5_Witness ==
    /\ event.type = "down" /\ event.button = 1
    /\ event.picked # None /\ event.sel = None
    /\ selected_piece = event.picked
    /\ \E q \in Ids \ {selected_piece} : collidepoint(piece[q].rect, event.pos)

\* C6: while a piece is selected, pointer_move(p) puts its top-left at p minus
\* the grab offset and leaves the selection and the offset as they are.
C6_MoveKeepsGrabPoint ==
    [][(event'.type = "move" /\ selected_piece # None) =>
          /\ TopLeftIn(piece', selected_piece)
               = <<event'.pos[1] - offset_x, event'.pos[2] - offset_y>>
          /\ selected_piece' = selected_piece
          /\ offset_x' = offset_x /\ offset_y' = offset_y]_vars

\* C6 witness: grabbed at offset (5,5), pointer moved to (100,100), top-left (95,95).
C6_Witness ==
    /\ event.type = "move" /\ event.sel # None /\ event.pos = <<100, 100>>
    /\ selected_piece = event.sel
    /\ offset_x = 5 /\ offset_y = 5
    /\ TopLeft(selected_piece) = <<95, 95>>

\* C7: a primary pointer_up while a piece is selected clears the selection and
\* the flag of the released piece; when the snap fails every position is as
\* it was.
C7_ReleaseAlwaysIdle ==
    [][(PrimaryUp /\ selected_piece # None) =>
          /\ selected_piece' = None
          /\ ~piece'[selected_piece].moving
          /\ snap_ret' # "True" => \A i \in Ids : TopLeftIn(piece', i) = TopLeft(i)]_vars

\* C7 witness: a release that did not snap.
C7_Witness ==
    /\ event.type = "up" /\ event.button = 1 /\ event.sel # None
    /\ snap_ret = "False"
    /\ selected_piece = None
    /\ ~piece[event.sel].moving

\* C8: a pointer_down while a piece is selected, and a pointer_move or a
\* pointer_up while none is, leave the selection, the grab offset, every piece
\* and the render list unchanged.
C8_OtherEventsNoOp ==
    [][(\/ event'.type = "down" /\ selected_piece # None
        \/ event'.type = "move" /\ selected_piece = None
        \/ event'.type = "up" /\ selected_piece = None)
          => UNCHANGED <<selected_piece, offset_x, offset_y, piece, pieces>>]_vars

\* C9: for an image at least grid_cols wide and grid_rows high,
\* create_puzzle_pieces returns rows*cols pieces in row-major order with
\* targets start_pos + (col*pw, row*ph), and the pw-by-ph target rectangles
\* tile the region of cols*pw by rows*ph at start_pos: every point of the
\* region is in exactly one, and none reaches outside it.
C9_RowMajorTiling ==
    (pc = "shuffle" /\ image[1] >= grid_cols /\ image[2] >= grid_rows) =>
        LET pw == image[1] \div grid_cols
            ph == image[2] \div grid_rows
            ox == start_pos[1]
            oy == start_pos[2]
            target(i) == [x |-> piece[i].correct_pos[1], y |-> piece[i].correct_pos[2],
                          w |-> piece[i].rect.w, h |-> piece[i].rect.h]
        IN  /\ Len(pieces) = grid_rows * grid_cols
            /\ \A row \in 0..(grid_rows - 1), col \in 0..(grid_cols - 1) :
                 LET i == pieces[row * grid_cols + col + 1]
                 IN  /\ piece[i].correct_pos = <<ox + col * pw, oy + row * ph>>
                     /\ piece[i].rect.w = pw /\ piece[i].rect.h = ph
            /\ \A x \in ox..(ox + grid_cols * pw - 1), y \in oy..(oy + grid_rows * ph - 1) :
                 Cardinality({i \in Ids : collidepoint(target(i), <<x, y>>)}) = 1
            /\ \A i \in Ids :
                 /\ ox <= target(i).x /\ target(i).x + pw <= ox + grid_cols * pw
                 /\ oy <= target(i).y /\ target(i).y + ph <= oy + grid_rows * ph

\* C9 witness: the 2x2 grid of a 100x100 image at (0,0).
C9_Witness ==
    /\ pc = "shuffle"
    /\ image = <<100, 100>> /\ grid_rows = 2 /\ grid_cols = 2 /\ start_pos = <<0, 0>>
    /\ [k \in 1..Len(pieces) |-> piece[pieces[k]].correct_pos]
         = << <<0, 0>>, <<50, 0>>, <<0, 50>>, <<50, 50>> >>
    /\ \A i \in Ids : piece[i].rect.w = 50 /\ piece[i].rect.h = 50

\* C10: when the piece width or height is zero, create_puzzle_pieces fails and
\* no piece has been constructed.
C10_InvalidDimensions ==
    (pc # "create" /\ (image[1] \div grid_cols = 0 \/ image[2] \div grid_rows = 0))
        => (pc = "error" /\ pieces = <<>> /\ Ids = {})

\* C11: once created, the render list holds every piece exactly once: it has
\* rows*cols entries, no entry twice, and exactly the pieces created.
C11_RenderListPermutation ==
    pc # "create" =>
        /\ Len(pieces) = grid_rows * grid_cols
        /\ {pieces[k] : k \in 1..Len(pieces)} = Ids
        /\ Cardinality(Ids) = grid_rows * grid_cols
        /\ \A j, k \in 1..Len(pieces) : pieces[j] = pieces[k] => j = k

\* C11 witness: pick-ups have put the render list in another order than the
\* one it was created in.
C11_Witness ==
    /\ pc = "loop" /\ picked # None
    /\ Len(pieces) = 3
    /\ pieces # <<1, 2, 3>>

\* C12: after a release has called snap_to_place, calling it again on the
\* released piece, not moved since, returns the same boolean and leaves the
\* piece where it is.
C12_SnapIdempotent ==
    (event.type = "up" /\ event.button = 1 /\ event.sel # None) =>
        LET again == snap_to_place(piece[event.sel])
        IN  /\ again.ret <=> snap_ret = "True"
            /\ again.self = piece[event.sel]

\* C12 witness: a release that snapped the piece onto its target.
C12_Witness ==
    /\ event.type = "up" /\ event.button = 1 /\ event.sel # None
    /\ snap_ret = "True"
    /\ TopLeft(event.sel) = piece[event.sel].correct_pos

\* C13: after shuffle_pieces on a rectangle at least as large as every piece,
\* every piece lies inside it (0 <= x <= width - w, 0 <= y <= height - h), and
\* sizes, targets, flags and the order of the list are as created.
C13_ScatterInside ==
    (pc \notin {"create", "shuffle"}
     /\ \A i \in Ids : piece[i].rect.w <= screen_rect[1] /\ piece[i].rect.h <= screen_rect[2])
      => LET made == create_puzzle_pieces(image, grid_rows, grid_cols, start_pos)
         IN  /\ pc = "loop"
             /\ pieces = [k \in 1..Len(made) |-> k]
             /\ \A k \in 1..Len(made) :
                  /\ 0 <= piece[k].rect.x
                  /\ piece[k].rect.x <= screen_rect[1] - piece[k].rect.w
                  /\ 0 <= piece[k].rect.y
                  /\ piece[k].rect.y <= screen_rect[2] - piece[k].rect.h
                  /\ piece[k].rect.w = made[k].rect.w
                  /\ piece[k].rect.h = made[k].rect.h
                  /\ piece[k].correct_pos = made[k].correct_pos
                  /\ piece[k].moving = made[k].moving

\* C13 witness: a piece smaller than the rectangle placed at the far end of
\* both ranges.
C13_Witness ==
    /\ pc = "loop"
    /\ \E i \in Ids :
         /\ piece[i].rect.x = screen_rect[1] - piece[i].rect.w /\ piece[i].rect.x > 0
         /\ piece[i].rect.y = screen_rect[2] - piece[i].rect.h /\ piece[i].rect.y > 0

\* C14: shuffle_pieces does not fail on a rectangle smaller than a piece: it
\* completes, with the coordinate 0 on every axis the piece does not fit on.
C14_ScatterClamped ==
    pc \notin {"create", "shuffle"} =>
        /\ pc # "error"
        /\ \A i \in Ids :
             /\ screen_rect[1] < piece[i].rect.w => piece[i].rect.x = 0
             /\ screen_rect[2] < piece[i].rect.h => piece[i].rect.y = 0

\* C15: a piece has moving = TRUE exactly when it is the selected piece.
C15_MovingIffSelected == \A i \in Ids : piece[i].moving <=> i = selected_piece

\* C16: an event of the loop leaves every target and size as it is and moves
\* no piece other than the one selected when it arrives.
C16_OnlySelectedMoves ==
    [][pc = "loop" =>
          \A i \in Ids :
             /\ piece'[i].correct_pos = piece[i].correct_pos
             /\ piece'[i].rect.w = piece[i].rect.w
             /\ piece'[i].rect.h = piece[i].rect.h
             /\ i # selected_piece => TopLeftIn(piece', i) = TopLeft(i)]_vars

\* C16 witness: a release has snapped the selected piece onto its target
\* while another piece sits off its own.
C16_Witness ==
    /\ event.type = "up" /\ event.button = 1 /\ event.sel # None
    /\ snap_ret = "True"
    /\ TopLeft(event.sel) = piece[event.sel].correct_pos
    /\ \E q \in Ids \ {event.sel} : TopLeft(q) # piece[q].correct_pos

\* C17: after a primary pointer_down that hits piece P, P is the last element
\* of the render list and the other pieces keep their relative order.
C17_RemoveThenAppend ==
    [][(PrimaryDown /\ TopmostAt(event'.pos) # None) =>
          LET P == TopmostAt(event'.pos)
              others(list) == SelectSeq(list, LAMBDA q : q # P)
          IN  /\ Len(pieces') = Len(pieces)
              /\ pieces'[Len(pieces')] = P
              /\ SubSeq(pieces', 1, Len(pieces') - 1) = others(pieces)]_vars

\* C17 witness: with three pieces, a pick-up of a piece that was not the last
\* of the render list.
C17_Witness ==
    /\ event.type = "down" /\ event.button = 1
    /\ Len(pieces) = 3
    /\ event.picked # None /\ selected_piece # None
    /\ event.picked # selected_piece
    /\ picked = selected_piece
    /\ pieces[3] = selected_piece

\* C18: whenever a piece is selected it is the last element of the render list.
C18_SelectedOnTop ==
    selected_piece # None => pieces[Len(pieces)] = selected_piece

\* C18 witness: a selected piece that was not created last is on top while it
\* is dragged.
C18_Witness ==
    /\ event.type = "move" /\ selected_piece # None
    /\ selected_piece # Len(pieces)
    /\ pieces[Len(pieces)] = selected_piece

\* C19: whenever a piece is selected the grab offset lies inside it, and after
\* a pointer_move during a drag the pointer is inside the selected piece.
C19_GrabOffsetInside ==
    selected_piece # None =>
        /\ 0 <= offset_x /\ offset_x < piece[selected_piece].rect.w
        /\ 0 <= offset_y /\ offset_y < piece[selected_piece].rect.h
        /\ event.type = "move" => collidepoint(piece[selected_piece].rect, event.pos)

\* C19 witness: after a pointer_move of a drag, the pointer is off the
\* top-left corner of the piece and inside it.
C19_Witness ==
    /\ event.type = "move" /\ event.sel # None /\ selected_piece = event.sel
    /\ offset_x > 0 /\ offset_y > 0
    /\ event.pos = <<TopLeft(selected_piece)[1] + offset_x,
                     TopLeft(selected_piece)[2] + offset_y>>

\* C20: a pointer_down or pointer_up of another button than the primary one
\* leaves the selection, the grab offset, every piece and the render list
\* unchanged.
C20_OtherButtonsNoOp ==
    [][(event'.type \in {"down", "up"} /\ event'.button # 1)
          => UNCHANGED <<selected_piece, offset_x, offset_y, piece, pieces>>]_vars

\* C20 witness: a pointer_up of another button arrived during a drag and the
\* drag goes on.
C20_Witness ==
    /\ event.type = "up" /\ event.button # 1 /\ event.sel # None
    /\ selected_piece = event.sel
    /\ piece[selected_piece].moving

====
